---------------------------- MODULE Spec2Model ----------------------------
(***************************************************************************)
(* Model of the BigQ rational layer (src/c/bigq.c) on top of the BigZ      *)
(* integer capability.                                                     *)
(*                                                                         *)
(* A BigZ is a record [ok, s, m]: ok = FALSE is BZNULL, s is the sign      *)
(* field of the header (BZ_MINUS, BZ_ZERO, BZ_PLUS) and m the magnitude.   *)
(* BzSetSign stores into the sign field without looking at the magnitude,  *)
(* so a BigZ with m = 0 and s # BZ_ZERO can exist; BzGetSign reads the     *)
(* field back.                                                             *)
(*                                                                         *)
(* A BigQ is a record [nul, N, D]: nul = TRUE is BQNULL.                   *)
(***************************************************************************)
EXTENDS Integers, Sequences, FiniteSets, TLC

(***************************************************************************)
(* Bounds of the model.                                                    *)
(***************************************************************************)
MaxMag == 3

MaxStrLen == 4

MaxCap == 4

\* the long double values are p/q with |p| <= MaxFloatNum, 1 <= q <= MaxFloatDen
MaxFloatNum == 9

MaxFloatDen == 8

\* the largest maxd handed to BqFromLongDouble
MaxBound == 7

\* the width of BzInt in bits: its values are -2^(BzIntBits-1) .. 2^(BzIntBits-1) - 1
BzIntBits == 4

\* the largest magnitude the floating type holds as a finite value
MaxFinite == 1

\* the largest width of the shift in the fallback of BqToLongDouble
MaxShift == 3

\* the allocation attempts of a call that can be made to fail: the first MaxFail
MaxFail == 8

VARIABLES
    a,          \* first operand register: a BigQ a caller holds
    b,          \* second operand register
    call,       \* the last library call: operation, arguments, outcome
    text,       \* the text a caller is assembling for BqFromString
    gcdBuild,   \* what BzGcd does with an operand of magnitude 0 whose
                \* sign field is not BZ_ZERO (outside the BigZ contract)
    third,      \* third operand register
    farey       \* the locals of the BqFromLongDouble call in progress

vars == <<a, b, call, text, gcdBuild, third, farey>>

---------------------------------------------------------------------------
(* BigZ capability                                                         *)

BZ_MINUS == -1
BZ_ZERO  == 0
BZ_PLUS  == 1

BZ_LT == -1
BZ_EQ == 0
BZ_GT == 1

BZNULL == [ok |-> FALSE, s |-> 0, m |-> 0]

AbsInt(i) == IF i < 0 THEN -i ELSE i

SgnInt(i) == IF i < 0 THEN -1 ELSE IF i = 0 THEN 0 ELSE 1

BzFromInteger(i) == [ok |-> TRUE, s |-> SgnInt(i), m |-> AbsInt(i)]

BzToInteger(z) == z.s * z.m

BzGetSign(z) == z.s

BzSetSign(z, sign) == [z EXCEPT !.s = sign]

BzCopy(z) == z

BzAbs(z) == IF z.s = BZ_MINUS THEN [z EXCEPT !.s = BZ_PLUS] ELSE z

BzAdd(y, z) == BzFromInteger(BzToInteger(y) + BzToInteger(z))

BzSubtract(y, z) == BzFromInteger(BzToInteger(y) - BzToInteger(z))

BzMultiply(y, z) == BzFromInteger(BzToInteger(y) * BzToInteger(z))

BzCompare(y, z) ==
    IF y.s < z.s THEN BZ_LT
    ELSE IF y.s > z.s THEN BZ_GT
    ELSE IF y.s * y.m < z.s * z.m THEN BZ_LT
    ELSE IF y.s * y.m > z.s * z.m THEN BZ_GT
    ELSE BZ_EQ

RECURSIVE BitLength(_)
BitLength(m) == IF m = 0 THEN 0 ELSE 1 + BitLength(m \div 2)

BzLength(z) == BitLength(z.m)

RECURSIVE GcdNat(_, _)
GcdNat(x, y) == IF y = 0 THEN x ELSE GcdNat(y, x % y)

IllFormed(z) == z.m = 0 /\ z.s # BZ_ZERO

BzGcd(y, z) ==
    IF (IllFormed(y) \/ IllFormed(z)) /\ gcdBuild = "null"
    THEN BZNULL
    ELSE BzFromInteger(GcdNat(y.m, z.m))

\* the quotient (exact wherever BqCanonicalize divides by the gcd);
\* BZNULL when the divisor is zero
BzDiv(y, z) ==
    IF z.m = 0 THEN BZNULL
    ELSE LET ny == BzToInteger(y)
             nz == BzToInteger(z)
         IN IF nz > 0 THEN BzFromInteger(ny \div nz)
            ELSE BzFromInteger((-ny) \div (-nz))

\* the quotient rounded down; BZNULL when the divisor is zero
BzFloor(y, z) ==
    IF z.m = 0 THEN BZNULL
    ELSE LET ny == BzToInteger(y)
             nz == BzToInteger(z)
         IN IF nz > 0 THEN BzFromInteger(ny \div nz)
            ELSE BzFromInteger((0 - ny) \div (0 - nz))

\* the arithmetic shift to the left by k bits
BzAsh(z, k) == BzFromInteger(BzToInteger(z) * (2 ^ k))

---------------------------------------------------------------------------
(* BigQ values                                                             *)

BQNULL == [nul |-> TRUE, N |-> BZNULL, D |-> BZNULL]

BqMake(n, d) == [nul |-> FALSE, N |-> n, D |-> d]

BqGetNumerator(q) == q.N

BqGetDenominator(q) == q.D

BQ_COPY == "BQ_COPY"
BQ_SET  == "BQ_SET"

BQ_LT  == -1
BQ_EQ  == 0
BQ_GT  == 1
BQ_ERR == 100

\* The outcome of a call that returns a BigQ: the value returned, the
\* number of BigZ allocated by the call, whether an operand BigQ was
\* dereferenced, and the arguments the call handed to BqCreateInternal
\* (mode "none" when it did not get that far).
Outcome(q, allocs, n, d, mode) ==
    [q |-> q, allocs |-> allocs, deref |-> FALSE, n |-> n, d |-> d, mode |-> mode]

NoCreate(allocs) == Outcome(BQNULL, allocs, BZNULL, BZNULL, "none")

\* BqCanonicalize: result value and number of BigZ allocated
BqCanonicalize(q) ==
    LET n   == BqGetNumerator(q)
        d   == BqGetDenominator(q)
        gcd == BzGcd(n, d)
    IN IF ~gcd.ok THEN [q |-> BQNULL, allocs |-> 0]
       ELSE IF BzToInteger(gcd) # 1
            THEN LET nn == BzDiv(n, gcd)
                     nd == BzDiv(d, gcd)
                 IN IF ~nn.ok THEN [q |-> BQNULL, allocs |-> 1]
                    ELSE IF ~nd.ok THEN [q |-> BQNULL, allocs |-> 2]
                    ELSE [q |-> BqMake(nn, nd), allocs |-> 3]
            ELSE [q |-> q, allocs |-> 1]

\* the default policy: only a strictly positive denominator is accepted
DenominatorRejectedZeroOnly(d) == BzGetSign(d) = BZ_ZERO

DenominatorRejected(d) == BzGetSign(d) # BZ_PLUS

\* the branch of BqCreateInternal taken when the numerator's sign is BZ_ZERO
BqCreateZeroKeepD(n, d, mode) ==
    IF mode = BQ_SET
    THEN Outcome(BqMake(n, d), 0, n, d, mode)
    ELSE Outcome(BqMake(BzFromInteger(0), BzFromInteger(1)), 2, n, d, mode)

BqCreateZero(n, d, mode) ==
    IF mode = BQ_SET
    THEN IF BzToInteger(d) = 1
         THEN Outcome(BqMake(n, d), 0, n, d, mode)
         ELSE Outcome(BqMake(n, BzFromInteger(1)), 1, n, d, mode)
    ELSE Outcome(BqMake(BzFromInteger(0), BzFromInteger(1)), 2, n, d, mode)

\* the test before BqCanonicalize, with the length counted in decimal digits
NeedsCanonicalizeDigits(cd) == cd.m >= 10

\* the test before BqCanonicalize
NeedsCanonicalize(cd) == BzLength(cd) # 1

\* the branches of BqCreateInternal taken for any other numerator
BqCreateNonZero(n, d, mode) ==
    LET \* in BQ_SET mode cn is n itself and cd is d itself, so the
        \* first BzSetSign is seen by the second sign test
        n1  == IF mode = BQ_SET /\ BzGetSign(n) # BzGetSign(d)
               THEN BzSetSign(n, BZ_MINUS) ELSE n
        cn1 == IF mode = BQ_SET THEN n1
               ELSE IF BzGetSign(n) # BzGetSign(d)
                    THEN BzSetSign(BzCopy(n), BZ_MINUS) ELSE BzCopy(n)
        cd  == IF mode = BQ_SET THEN BzSetSign(d, BZ_PLUS) ELSE BzAbs(d)
        d1  == IF mode = BQ_SET THEN cd ELSE d
        cn  == IF BzGetSign(n1) # BzGetSign(d1)
               THEN BzSetSign(cn1, BZ_MINUS)
               ELSE BzSetSign(cn1, BZ_PLUS)
        own == IF mode = BQ_COPY THEN 2 ELSE 0
        q   == BqMake(cn, cd)
    IN IF NeedsCanonicalize(cd)
       THEN LET c == BqCanonicalize(q)
            IN Outcome(c.q, own + c.allocs, n, d, mode)
       ELSE Outcome(q, own, n, d, mode)

BqCreateInternal(n, d, mode) ==
    IF ~n.ok \/ ~d.ok THEN Outcome(BQNULL, 0, n, d, mode)
    ELSE IF DenominatorRejected(d) THEN Outcome(BQNULL, 0, n, d, mode)
    ELSE IF BzGetSign(n) = BZ_ZERO THEN BqCreateZero(n, d, mode)
    ELSE BqCreateNonZero(n, d, mode)

BqCreate(n, d) == BqCreateInternal(n, d, BQ_COPY)

---------------------------------------------------------------------------
(* Arithmetic and comparison                                               *)

\* the outcome of the BqCreateInternal call that ends an operation, with
\* the BigZ the operation allocated itself added
Finish(o, k) == [o EXCEPT !.allocs = @ + k, !.deref = TRUE]

\* the test every binary operation starts with
AnyNullFirstOnly(x, y) == x.nul

AnyNull(x, y) == x.nul \/ y.nul

BqAdd(x, y) ==
    IF AnyNull(x, y) THEN NoCreate(0)
    ELSE LET an == BqGetNumerator(x)
             ad == BqGetDenominator(x)
             bn == BqGetNumerator(y)
             bd == BqGetDenominator(y)
         IN IF BzCompare(ad, bd) = BZ_EQ
            THEN Finish(BqCreateInternal(BzAdd(an, bn), BzCopy(ad), BQ_SET), 2)
            ELSE LET tmp1 == BzMultiply(an, bd)
                     tmp2 == BzMultiply(ad, bn)
                 IN Finish(BqCreateInternal(BzAdd(tmp1, tmp2),
                                            BzMultiply(ad, bd), BQ_SET), 4)

BqSubtract(x, y) ==
    IF AnyNull(x, y) THEN NoCreate(0)
    ELSE LET an == BqGetNumerator(x)
             ad == BqGetDenominator(x)
             bn == BqGetNumerator(y)
             bd == BqGetDenominator(y)
         IN IF BzCompare(ad, bd) = BZ_EQ
            THEN Finish(BqCreateInternal(BzSubtract(an, bn), BzCopy(ad), BQ_SET), 2)
            ELSE LET tmp1 == BzMultiply(an, bd)
                     tmp2 == BzMultiply(ad, bn)
                 IN Finish(BqCreateInternal(BzSubtract(tmp1, tmp2),
                                            BzMultiply(ad, bd), BQ_SET), 4)

BqMultiply(x, y) ==
    IF AnyNull(x, y) THEN NoCreate(0)
    ELSE LET an == BqGetNumerator(x)
             ad == BqGetDenominator(x)
             bn == BqGetNumerator(y)
             bd == BqGetDenominator(y)
         IN Finish(BqCreateInternal(BzMultiply(an, bn), BzMultiply(ad, bd), BQ_SET), 2)

\* the sign BqDiv gives the raw numerator, were it always plus
DivNumeratorSignPlus(n0, d0) == BZ_PLUS

\* the sign BqDiv gives the raw numerator: minus when the raw signs differ
DivNumeratorSign(n0, d0) ==
    IF BzGetSign(n0) # BzGetSign(d0) THEN BZ_MINUS ELSE BZ_PLUS

BqDiv(x, y) ==
    IF AnyNull(x, y) THEN NoCreate(0)
    ELSE LET an == BqGetNumerator(x)
             ad == BqGetDenominator(x)
             bn == BqGetNumerator(y)
             bd == BqGetDenominator(y)
             n0 == BzMultiply(an, bd)
             d0 == BzMultiply(ad, bn)
             n  == BzSetSign(n0, DivNumeratorSign(n0, d0))
             d  == BzSetSign(d0, BZ_PLUS)
         IN Finish(BqCreateInternal(n, d, BQ_SET), 2)

\* BqCompare: the BqCmp returned, the BigZ allocated, operands dereferenced
\* the comparison of the numerators alone, whatever the denominators
CrossCompareNumerators(an, ad, bn, bd) == BzCompare(an, bn)

\* the comparison of an * bd with ad * bn
CrossCompare(an, ad, bn, bd) == BzCompare(BzMultiply(an, bd), BzMultiply(ad, bn))

\* BqCompare whose branch for different signs only looks for BZ_MINUS
BqCompareMinusOnly(x, y) ==
    IF AnyNull(x, y) THEN [cmp |-> BQ_ERR, allocs |-> 0, deref |-> FALSE]
    ELSE LET an == BqGetNumerator(x)
             ad == BqGetDenominator(x)
             bn == BqGetNumerator(y)
             bd == BqGetDenominator(y)
         IN IF BzGetSign(an) # BzGetSign(bn)
            THEN [cmp |-> IF BzGetSign(an) = BZ_MINUS THEN BQ_LT
                          ELSE BQ_GT,
                  allocs |-> 0, deref |-> TRUE]
            ELSE IF BzCompare(ad, bd) = BZ_EQ
            THEN [cmp |-> BzCompare(an, bn), allocs |-> 0, deref |-> TRUE]
            ELSE [cmp |-> CrossCompare(an, ad, bn, bd),
                  allocs |-> 2, deref |-> TRUE]

BqCompare(x, y) ==
    IF AnyNull(x, y) THEN [cmp |-> BQ_ERR, allocs |-> 0, deref |-> FALSE]
    ELSE LET an == BqGetNumerator(x)
             ad == BqGetDenominator(x)
             bn == BqGetNumerator(y)
             bd == BqGetDenominator(y)
         IN IF BzGetSign(an) # BzGetSign(bn)
            THEN [cmp |-> IF BzGetSign(an) = BZ_MINUS THEN BQ_LT
                          ELSE IF BzGetSign(an) = BZ_ZERO /\ BzGetSign(bn) = BZ_PLUS
                               THEN BQ_LT
                               ELSE BQ_GT,
                  allocs |-> 0, deref |-> TRUE]
            ELSE IF BzCompare(ad, bd) = BZ_EQ
            THEN [cmp |-> BzCompare(an, bn), allocs |-> 0, deref |-> TRUE]
            ELSE [cmp |-> CrossCompare(an, ad, bn, bd),
                  allocs |-> 2, deref |-> TRUE]

BqNegate(x) ==
    IF x.nul THEN NoCreate(0)
    ELSE LET an  == BqGetNumerator(x)
             ad  == BqGetDenominator(x)
             res == Finish(BqCreateInternal(an, ad, BQ_COPY), 0)
         IN IF res.q.nul THEN res
            ELSE IF BzGetSign(an) = BZ_MINUS
                 THEN [res EXCEPT !.q.N = BzSetSign(@, BZ_PLUS)]
            ELSE IF BzGetSign(an) = BZ_PLUS
                 THEN [res EXCEPT !.q.N = BzSetSign(@, BZ_MINUS)]
            ELSE res

BqAbs(x) ==
    IF x.nul THEN NoCreate(0)
    ELSE LET an  == BqGetNumerator(x)
             ad  == BqGetDenominator(x)
             res == Finish(BqCreateInternal(an, ad, BQ_COPY), 0)
         IN IF res.q.nul THEN res
            ELSE IF BzGetSign(BqGetNumerator(res.q)) = BZ_MINUS
                 THEN [res EXCEPT !.q.N = BzSetSign(@, BZ_PLUS)]
            ELSE res

BqInverse(x) ==
    IF x.nul THEN NoCreate(0)
    ELSE LET an == BqGetNumerator(x)
             ad == BqGetDenominator(x)
         IN Finish(BqCreateInternal(ad, an, BQ_COPY), 0)

---------------------------------------------------------------------------
(* Strings: a string is a sequence of one-character strings, without its   *)
(* terminator.                                                             *)

NUL == ""

At(s, i) == IF i >= 1 /\ i <= Len(s) THEN s[i] ELSE NUL

DigitChars == <<"0", "1", "2", "3", "4", "5", "6", "7", "8", "9">>

Bases == {2, 10}

BQ_DEFAULT_SIGN == 0
BQ_FORCE_SIGN   == 1

BZ_UNTIL_SPACE == "BZ_UNTIL_SPACE"
BZ_UNTIL_SLASH == "BZ_UNTIL_SLASH"

\* the value of a digit character in the base, -1 when it is not a digit
DigitValue(c, base) ==
    IF \E k \in 1..base : DigitChars[k] = c
    THEN (CHOOSE k \in 1..base : DigitChars[k] = c) - 1
    ELSE -1

RECURSIVE ToDigits(_, _)
ToDigits(m, base) ==
    IF m < base THEN <<DigitChars[m + 1]>>
    ELSE Append(ToDigits(m \div base, base), DigitChars[(m % base) + 1])

BzToString(z, base, sign) ==
    LET pre == IF z.s = BZ_MINUS THEN <<"-">>
               ELSE IF sign = BQ_FORCE_SIGN /\ z.s = BZ_PLUS THEN <<"+">>
               ELSE <<>>
    IN pre \o ToDigits(z.m, base)

BzStrLen(s) == Len(s)

RECURSIVE SkipSpace(_)
SkipSpace(s) == IF At(s, 1) = " " THEN SkipSpace(Tail(s)) ELSE s

\* the number of leading characters of s that are digits of the base
RECURSIVE DigitRun(_, _)
DigitRun(s, base) ==
    IF s # <<>> /\ DigitValue(s[1], base) >= 0
    THEN 1 + DigitRun(Tail(s), base)
    ELSE 0

RECURSIVE DigitsValue(_, _, _)
DigitsValue(s, base, acc) ==
    IF s = <<>> THEN acc
    ELSE DigitsValue(Tail(s), base, acc * base + DigitValue(s[1], base))

BzFromString(s, base, flag) ==
    LET t    == SkipSpace(s)
        sgn  == IF At(t, 1) = "-" THEN -1 ELSE 1
        u    == IF At(t, 1) \in {"+", "-"} THEN Tail(t) ELSE t
        k    == DigitRun(u, base)
        stop == At(u, k + 1)
    IN IF k = 0 THEN BZNULL
       ELSE IF \/ stop = NUL
               \/ flag = BZ_UNTIL_SLASH /\ stop = "/"
               \/ flag = BZ_UNTIL_SPACE /\ stop = " "
            THEN BzFromInteger(sgn * DigitsValue(SubSeq(u, 1, k), base, 0))
            ELSE BZNULL

\* The outcome of a formatting call: ret is "NULL", "buf" (the caller's
\* buffer) or "heap" (a new string); str is the string stored at the
\* returned address; stored is the number of bytes stored into the
\* caller's buffer, terminator included; buflen is *buflen after the call
\* (-1 when no buflen was passed) and slen is *slen after the call (-1 when
\* it was not assigned).
StrOutcome(ret, str, stored, buflen, slen) ==
    [ret |-> ret, str |-> str, stored |-> stored, buflen |-> buflen, slen |-> slen]

\* buf is TRUE when a buffer is passed, hasLen when buflen is not NULL and
\* cap is then *buflen on entry
BzToStringBufferExt(z, base, sign, buf, hasLen, cap) ==
    LET s   == BzToString(z, base, sign)
        req == BzStrLen(s) + 1
        len == IF hasLen THEN cap ELSE -1
    IN IF buf
       THEN IF ~hasLen THEN StrOutcome("NULL", <<>>, 0, -1, -1)
            ELSE IF cap >= req THEN StrOutcome("buf", s, req, len, BzStrLen(s))
            ELSE StrOutcome("NULL", <<>>, 0, req, BzStrLen(s))
       ELSE StrOutcome("heap", s, 0, len, BzStrLen(s))

BqNaN == <<"#", ".", "Q", "N", "a", "N">>

\* sizeof(BqNaN): the characters and the terminator
SizeofBqNaN == Len(BqNaN) + 1

\* n/d catenated, with the sign policy applied to the denominator too
FractionStringSigned(q, base, sign) ==
    LET n == BzToString(BqGetNumerator(q), base, sign)
        d == BzToString(BqGetDenominator(q), base, sign)
    IN [n |-> n, d |-> d, res |-> n \o <<"/">> \o d]

\* the numerator string, the denominator string and n/d catenated
FractionString(q, base, sign) ==
    LET n == BzToString(BqGetNumerator(q), base, sign)
        d == BzToString(BqGetDenominator(q), base, BQ_DEFAULT_SIGN)
    IN [n |-> n, d |-> d, res |-> n \o <<"/">> \o d]

BqToStringBufferExt(q, base, sign, buf, hasLen, cap) ==
    LET blen == IF hasLen THEN cap ELSE -1
    IN IF buf /\ ~hasLen THEN StrOutcome("NULL", <<>>, 0, -1, -1)
       ELSE IF q.nul
       THEN LET len == SizeofBqNaN
            IN IF buf
               THEN IF cap >= len
                    THEN StrOutcome("buf", BqNaN, len, blen, len)
                    ELSE StrOutcome("NULL", <<>>, 0, blen, len)
               ELSE StrOutcome("heap", BqNaN, 0, blen, len)
       ELSE IF BzLength(BqGetDenominator(q)) = 1
       THEN BzToStringBufferExt(BqGetNumerator(q), base, sign, buf, hasLen, cap)
       ELSE LET f   == FractionString(q, base, sign)
                len == BzStrLen(f.n) + BzStrLen(f.d) + 1
                res == f.res
            IN IF buf
               THEN \* the string and its terminator are stored into buf
                    \* whatever *buflen says
                    StrOutcome("buf", res, len + 1, blen, len)
               ELSE StrOutcome("heap", res, 0, blen, len)

\* the test on the character after the slash, without the space
BadAfterSlashSigns(ch) == ch \in {"+", "-"}

\* the test on the character after the slash
BadAfterSlash(ch) == ch \in {"+", "-", " "}

\* BqFromString that reads the numerator of a fraction until a space
BqFromStringUntilSpace(s, base) ==
    IF s = <<>> THEN NoCreate(0)
    ELSE LET s1 == SkipSpace(s)
             p1 == IF At(s1, 1) \in {"+", "-"} THEN 2 ELSE 1
             \* index of the first '/' at or after p1, Len(s1) + 1 if none
             p2 == CHOOSE i \in p1 .. (Len(s1) + 1) :
                       /\ At(s1, i) \in {"/", NUL}
                       /\ \A j \in p1 .. (i - 1) : At(s1, j) # "/"
         IN IF At(s1, 1) \in {"+", "-"} /\ At(s1, 2) \in {"+", "-"}
            THEN NoCreate(0)
            ELSE IF At(s1, p1) = NUL THEN NoCreate(0)
            ELSE IF At(s1, p2) = NUL
            THEN LET n == BzFromString(s1, base, BZ_UNTIL_SPACE)
                 IN IF ~n.ok THEN NoCreate(0)
                    ELSE [Finish(BqCreateInternal(n, BzFromInteger(1), BQ_SET), 2)
                            EXCEPT !.deref = FALSE]
            ELSE IF BadAfterSlash(At(s1, p2 + 1)) THEN NoCreate(0)
            ELSE LET n == BzFromString(s1, base, BZ_UNTIL_SPACE)
                     d == BzFromString(SubSeq(s1, p2 + 1, Len(s1)), base, BZ_UNTIL_SPACE)
                 IN IF ~n.ok THEN NoCreate(0)
                    ELSE IF ~d.ok THEN NoCreate(1)
                    ELSE [Finish(BqCreateInternal(n, d, BQ_SET), 2)
                            EXCEPT !.deref = FALSE]

BqFromString(s, base) ==
    IF s = <<>> THEN NoCreate(0)
    ELSE LET s1 == SkipSpace(s)
             p1 == IF At(s1, 1) \in {"+", "-"} THEN 2 ELSE 1
             \* index of the first '/' at or after p1, Len(s1) + 1 if none
             p2 == CHOOSE i \in p1 .. (Len(s1) + 1) :
                       /\ At(s1, i) \in {"/", NUL}
                       /\ \A j \in p1 .. (i - 1) : At(s1, j) # "/"
         IN IF At(s1, 1) \in {"+", "-"} /\ At(s1, 2) \in {"+", "-"}
            THEN NoCreate(0)
            ELSE IF At(s1, p1) = NUL THEN NoCreate(0)
            ELSE IF At(s1, p2) = NUL
            THEN LET n == BzFromString(s1, base, BZ_UNTIL_SPACE)
                 IN IF ~n.ok THEN NoCreate(0)
                    ELSE [Finish(BqCreateInternal(n, BzFromInteger(1), BQ_SET), 2)
                            EXCEPT !.deref = FALSE]
            ELSE IF BadAfterSlash(At(s1, p2 + 1)) THEN NoCreate(0)
            ELSE LET n == BzFromString(s1, base, BZ_UNTIL_SLASH)
                     d == BzFromString(SubSeq(s1, p2 + 1, Len(s1)), base, BZ_UNTIL_SPACE)
                 IN IF ~n.ok THEN NoCreate(0)
                    ELSE IF ~d.ok THEN NoCreate(1)
                    ELSE [Finish(BqCreateInternal(n, d, BQ_SET), 2)
                            EXCEPT !.deref = FALSE]

---------------------------------------------------------------------------
(* BqFromLongDouble. The long double num is the exact rational p/q, q > 0, *)
(* so num * md > mn is p * md > mn * q.                                    *)

FareyIdle ==
    [pc |-> "idle", sign |-> 1, p |-> 0, q |-> 1, maxd |-> 0,
     ln |-> 0, ld |-> 1, un |-> 1, ud |-> 0, rn |-> 1, rd |-> 0]

\* the locals when the loop is entered
FareyStart(p, q, maxd) ==
    [pc |-> "loop", sign |-> IF p < 0 THEN -1 ELSE 1, p |-> AbsInt(p), q |-> q,
     maxd |-> maxd, ln |-> 0, ld |-> 1, un |-> 1, ud |-> 0, rn |-> 1, rd |-> 0]

\* the largest BzInt; the smallest is - BzIntMax - 1
BzIntMax == (2 ^ (BzIntBits - 1)) - 1

\* the BzInt a two's complement build keeps of the integer x
WrapBzInt(x) == ((x - (0 - BzIntMax - 1)) % (2 ^ BzIntBits)) + (0 - BzIntMax - 1)

\* a sum of the iteration does not fit a BzInt: the addition is undefined
FareyOverflows(f) ==
    \/ f.ln + f.un > BzIntMax \/ f.ln + f.un < (0 - BzIntMax - 1)
    \/ f.ld + f.ud > BzIntMax \/ f.ld + f.ud < (0 - BzIntMax - 1)

\* one iteration of the loop: pc is "break" when the iteration leaves it;
\* a sum that does not fit is the one a wrapping build computes
FareyStep(f) ==
    LET mn == WrapBzInt(f.ln + f.un)
        md == WrapBzInt(f.ld + f.ud)
    IN IF f.p * md > mn * f.q
       THEN IF f.maxd < md
            THEN [f EXCEPT !.rn = f.un, !.rd = f.ud, !.pc = "break"]
            ELSE [f EXCEPT !.ln = mn, !.ld = md]
       ELSE IF f.p * md = mn * f.q
       THEN IF f.maxd >= md
            THEN [f EXCEPT !.rn = mn, !.rd = md, !.pc = "break"]
            ELSE IF f.ld < f.ud
            THEN [f EXCEPT !.rn = f.ln, !.rd = f.ld, !.pc = "break"]
            ELSE [f EXCEPT !.rn = f.un, !.rd = f.ud, !.pc = "break"]
       ELSE IF f.maxd < md
            THEN [f EXCEPT !.rn = f.ln, !.rd = f.ld, !.pc = "break"]
            ELSE [f EXCEPT !.un = mn, !.ud = md]

\* the loop run from fast, with slow at half its pace: pc is "forever" when
\* fast meets slow inside the loop, which then never leaves
RECURSIVE FareyRunFrom(_, _)
FareyRunFrom(slow, fast) ==
    IF fast.pc # "loop" THEN fast
    ELSE LET f1 == FareyStep(fast)
         IN IF f1.pc # "loop" THEN f1
            ELSE LET f2 == FareyStep(f1)
                     s1 == FareyStep(slow)
                 IN IF f2.pc # "loop" THEN f2
                    ELSE IF f2 = s1 THEN [f2 EXCEPT !.pc = "forever"]
                    ELSE FareyRunFrom(s1, f2)

FareyRun(f) == FareyRunFrom(f, f)

\* what follows the loop: the two BigZ and BqCreateInternal
FareyCreate(f) ==
    [Finish(BqCreateInternal(BzFromInteger(WrapBzInt(f.sign * f.rn)), BzFromInteger(f.rd), BQ_SET), 2)
        EXCEPT !.deref = FALSE]

\* the BigQ returned; BQNULL stands for the call that never returns
BqFromLongDouble(p, q, maxd) ==
    LET f == FareyRun(FareyStart(p, q, maxd))
    IN IF f.pc = "break" THEN FareyCreate(f) ELSE NoCreate(0)

BqFromDouble(p, q, maxd) == BqFromLongDouble(p, q, maxd)

---------------------------------------------------------------------------
(* BqToLongDouble                                                          *)

\* the quotient of the two conversions is not a number: infinity over
\* infinity, or zero over zero
NaiveIsNan(q) ==
    \/ BqGetNumerator(q).m > MaxFinite /\ BqGetDenominator(q).m > MaxFinite
    \/ BqGetNumerator(q).m = 0 /\ BqGetDenominator(q).m = 0

\* the fallback, were the integer part added to q instead of subtracted
BqToLongDoubleFallbackAdd(q, w) ==
    LET zone   == BzFromInteger(1)
        zdiv   == BzAsh(zone, w)
        qdiv   == BqCreate(zdiv, zone).q
        zfloor == BzFloor(BqGetNumerator(q), BqGetDenominator(q))
        qfloor == BqCreate(zfloor, zone).q
        qtmp1  == BqAdd(q, qfloor).q
        qtmp2  == BqMultiply(qtmp1, qdiv).q
    IN IF qtmp2.nul
       THEN [path |-> "fallback", w |-> w, deref |-> FALSE]
       ELSE LET ztmp == BzFloor(BqGetNumerator(qtmp2), BqGetDenominator(qtmp2))
            IN [path |-> "fallback", w |-> w, deref |-> TRUE,
                zfloor |-> zfloor, ztmp |-> ztmp,
                qtmp1 |-> BqCreate(ztmp, zdiv).q]

\* the fallback of BqToLongDouble with a shift of w bits: the integer part
\* zfloor, the mantissa part ztmp and the fraction ztmp / 2^w whose
\* conversion is added to the conversion of zfloor; deref is FALSE when
\* the members of a BQNULL are read
BqToLongDoubleFallback(q, w) ==
    LET zone   == BzFromInteger(1)
        zdiv   == BzAsh(zone, w)
        qdiv   == BqCreate(zdiv, zone).q
        zfloor == BzFloor(BqGetNumerator(q), BqGetDenominator(q))
        qfloor == BqCreate(zfloor, zone).q
        qtmp1  == BqSubtract(q, qfloor).q
        qtmp2  == BqMultiply(qtmp1, qdiv).q
    IN IF qtmp2.nul
       THEN [path |-> "fallback", w |-> w, deref |-> FALSE]
       ELSE LET ztmp == BzFloor(BqGetNumerator(qtmp2), BqGetDenominator(qtmp2))
            IN [path |-> "fallback", w |-> w, deref |-> TRUE,
                zfloor |-> zfloor, ztmp |-> ztmp,
                qtmp1 |-> BqCreate(ztmp, zdiv).q]

BqToLongDouble(q, w) ==
    IF q.nul THEN [path |-> "null", w |-> w, deref |-> TRUE]
    ELSE IF NaiveIsNan(q) THEN BqToLongDoubleFallback(q, w)
    ELSE [path |-> "naive", w |-> w, deref |-> TRUE]

---------------------------------------------------------------------------
(* The heap. A cell is a BigZ ("z") or a BigQ container ("q"); an address  *)
(* is the index of a cell, 0 is the null pointer. A machine m holds the   *)
(* cells, the number of allocations attempted so far, the attempts that   *)
(* fail, and in ret the value the last function returned.                  *)

ZCell(z) == [kind |-> "z", z |-> z, N |-> 0, D |-> 0, frees |-> 0]

QCell(n, d) == [kind |-> "q", z |-> BZNULL, N |-> n, D |-> d, frees |-> 0]

Machine(fail) == [cells |-> <<>>, tries |-> 0, fail |-> fail, ret |-> 0]

Ret(m, r) == [m EXCEPT !.ret = r]

\* malloc: the cell is appended unless this attempt fails
New(m, cell) ==
    IF (m.tries + 1) \in m.fail
    THEN [m EXCEPT !.tries = @ + 1, !.ret = 0]
    ELSE [m EXCEPT !.tries = @ + 1, !.cells = Append(@, cell),
                   !.ret = Len(m.cells) + 1]

\* a BigZ function that returns the new BigZ z; BZNULL when the function
\* itself fails or its allocation does
ZNew(m, z) == IF ~z.ok THEN Ret(m, 0) ELSE New(m, ZCell(z))

\* free of a BigZ
BzFreeMem(m, addr) == [m EXCEPT !.cells[addr].frees = @ + 1]

\* free of the container alone
BqFreeMem(m, addr) == [m EXCEPT !.cells[addr].frees = @ + 1]

\* the BigZ stored at an address
Val(m, addr) == m.cells[addr].z

\* BzSetSign writes the sign into the BigZ it is given
BzSetSignMem(m, addr, sign) == [m EXCEPT !.cells[addr].z = BzSetSign(@, sign)]

\* BqSetNumerator and BqSetDenominator
BqSetMembersMem(m, q, n, d) == [m EXCEPT !.cells[q].N = n, !.cells[q].D = d]

BqDeleteMem(m, q) ==
    IF q = 0 THEN m
    ELSE LET n  == m.cells[q].N
             d  == m.cells[q].D
             m1 == IF n # 0 THEN BzFreeMem(m, n) ELSE m
             m2 == IF d # 0 THEN BzFreeMem(m1, d) ELSE m1
         IN BqFreeMem(m2, q)

BqCanonicalizeMem(m, q) ==
    LET n   == m.cells[q].N
        d   == m.cells[q].D
        m1  == ZNew(m, BzGcd(Val(m, n), Val(m, d)))
        gcd == m1.ret
    IN IF gcd = 0 THEN Ret(BqDeleteMem(m1, q), 0)
       ELSE IF BzToInteger(Val(m1, gcd)) # 1
       THEN LET m2 == ZNew(m1, BzDiv(Val(m1, n), Val(m1, gcd)))
                nn == m2.ret
            IN IF nn = 0 THEN Ret(BqDeleteMem(BzFreeMem(m2, gcd), q), 0)
               ELSE LET m3 == ZNew(m2, BzDiv(Val(m2, d), Val(m2, gcd)))
                        nd == m3.ret
                    IN IF nd = 0
                       THEN Ret(BqDeleteMem(BzFreeMem(BzFreeMem(m3, nn), gcd), q), 0)
                       ELSE LET m4 == BzFreeMem(BzFreeMem(m3, d), n)
                                m5 == BqSetMembersMem(m4, q, nn, nd)
                            IN Ret(BzFreeMem(m5, gcd), q)
       ELSE Ret(BzFreeMem(m1, gcd), q)

\* the zero branch of BqCreateInternal, q allocated
BqCreateZeroMem(m, q, n, d, mode) ==
    IF mode = BQ_SET /\ BzToInteger(Val(m, d)) = 1
    THEN Ret(BqSetMembersMem(m, q, n, d), q)
    ELSE LET m1   == IF mode = BQ_SET THEN Ret(BzFreeMem(m, d), n)
                     ELSE ZNew(m, BzFromInteger(0))
             zero == m1.ret
         IN IF zero = 0 THEN Ret(BqFreeMem(m1, q), 0)
            ELSE LET m2  == ZNew(m1, BzFromInteger(1))
                     one == m2.ret
                 IN IF one = 0 THEN Ret(BqFreeMem(BzFreeMem(m2, zero), q), 0)
                    ELSE Ret(BqSetMembersMem(m2, q, zero, one), q)

\* the two sign steps, the stores and the reduction that end BqCreateInternal
BqCreateSignsMem(m, q, n, d, cn, cd, mode) ==
    LET m1 == IF BzGetSign(Val(m, n)) # BzGetSign(Val(m, d))
              THEN BzSetSignMem(m, cn, BZ_MINUS) ELSE m
        m2 == IF mode = BQ_SET THEN BzSetSignMem(m1, cd, BZ_PLUS) ELSE m1
        m3 == IF BzGetSign(Val(m2, n)) # BzGetSign(Val(m2, d))
              THEN BzSetSignMem(m2, cn, BZ_MINUS)
              ELSE BzSetSignMem(m2, cn, BZ_PLUS)
        m4 == BqSetMembersMem(m3, q, cn, cd)
    IN IF NeedsCanonicalize(Val(m4, cd)) THEN BqCanonicalizeMem(m4, q) ELSE Ret(m4, q)

\* the other branches of BqCreateInternal, q allocated
BqCreateNonZeroMem(m, q, n, d, mode) ==
    IF mode = BQ_COPY
    THEN LET m1 == ZNew(m, BzCopy(Val(m, n)))
             cn == m1.ret
         IN IF cn = 0 THEN Ret(BqFreeMem(m1, q), 0)
            ELSE LET m2 == ZNew(m1, BzAbs(Val(m1, d)))
                     cd == m2.ret
                 IN IF cd = 0 THEN Ret(BqFreeMem(BzFreeMem(m2, cn), q), 0)
                    ELSE BqCreateSignsMem(m2, q, n, d, cn, cd, mode)
    ELSE BqCreateSignsMem(m, q, n, d, n, d, mode)

BqCreateInternalMem(m, n, d, mode) ==
    IF n = 0 \/ d = 0 THEN Ret(m, 0)
    ELSE IF DenominatorRejected(Val(m, d))
    THEN Ret(IF mode = BQ_SET THEN BzFreeMem(BzFreeMem(m, d), n) ELSE m, 0)
    ELSE LET m1 == New(m, QCell(0, 0))
             q  == m1.ret
         IN IF q = 0 THEN Ret(m1, 0)
            ELSE IF BzGetSign(Val(m1, n)) = BZ_ZERO
            THEN BqCreateZeroMem(m1, q, n, d, mode)
            ELSE BqCreateNonZeroMem(m1, q, n, d, mode)

\* two BigZ functions in a row, then BqCreateInternal in BQ_SET mode: the
\* second is not called when the first fails, and the first result is
\* freed when the second fails
CreateFromTwoMem(m, zn, zd) ==
    LET m1 == ZNew(m, zn)
        n  == m1.ret
    IN IF n = 0 THEN Ret(m1, 0)
       ELSE LET m2 == ZNew(m1, zd)
                d  == m2.ret
            IN IF d = 0 THEN Ret(BzFreeMem(m2, n), 0)
               ELSE BqCreateInternalMem(m2, n, d, BQ_SET)

BqAddMem(m, x, y) ==
    IF x = 0 \/ y = 0 THEN Ret(m, 0)
    ELSE LET an == Val(m, m.cells[x].N)
             ad == Val(m, m.cells[x].D)
             bn == Val(m, m.cells[y].N)
             bd == Val(m, m.cells[y].D)
         IN IF BzCompare(ad, bd) = BZ_EQ
            THEN CreateFromTwoMem(m, BzAdd(an, bn), BzCopy(ad))
            ELSE LET m1   == ZNew(m, BzMultiply(an, bd))
                     tmp1 == m1.ret
                 IN IF tmp1 = 0 THEN Ret(m1, 0)
                    ELSE LET m2   == ZNew(m1, BzMultiply(ad, bn))
                             tmp2 == m2.ret
                         IN IF tmp2 = 0 THEN Ret(BzFreeMem(m2, tmp1), 0)
                            ELSE LET m3 == ZNew(m2, BzAdd(Val(m2, tmp1), Val(m2, tmp2)))
                                     n  == m3.ret
                                     m4 == BzFreeMem(BzFreeMem(m3, tmp1), tmp2)
                                 IN IF n = 0 THEN Ret(m4, 0)
                                    ELSE LET m5 == ZNew(m4, BzMultiply(ad, bd))
                                             d  == m5.ret
                                         IN IF d = 0 THEN Ret(BzFreeMem(m5, n), 0)
                                            ELSE BqCreateInternalMem(m5, n, d, BQ_SET)

BqSubtractMem(m, x, y) ==
    IF x = 0 \/ y = 0 THEN Ret(m, 0)
    ELSE LET an == Val(m, m.cells[x].N)
             ad == Val(m, m.cells[x].D)
             bn == Val(m, m.cells[y].N)
             bd == Val(m, m.cells[y].D)
         IN IF BzCompare(ad, bd) = BZ_EQ
            THEN CreateFromTwoMem(m, BzSubtract(an, bn), BzCopy(ad))
            ELSE LET m1   == ZNew(m, BzMultiply(an, bd))
                     tmp1 == m1.ret
                 IN IF tmp1 = 0 THEN Ret(m1, 0)
                    ELSE LET m2   == ZNew(m1, BzMultiply(ad, bn))
                             tmp2 == m2.ret
                         IN IF tmp2 = 0 THEN Ret(BzFreeMem(m2, tmp1), 0)
                            ELSE LET m3 == ZNew(m2, BzSubtract(Val(m2, tmp1), Val(m2, tmp2)))
                                     n  == m3.ret
                                 IN IF n = 0
                                    THEN Ret(BzFreeMem(BzFreeMem(m3, tmp2), tmp1), 0)
                                    ELSE LET m4 == ZNew(m3, BzMultiply(ad, bd))
                                             d  == m4.ret
                                             m5 == BzFreeMem(BzFreeMem(m4, tmp2), tmp1)
                                         IN IF d = 0 THEN Ret(BzFreeMem(m5, n), 0)
                                            ELSE BqCreateInternalMem(m5, n, d, BQ_SET)

BqMultiplyMem(m, x, y) ==
    IF x = 0 \/ y = 0 THEN Ret(m, 0)
    ELSE CreateFromTwoMem(m,
             BzMultiply(Val(m, m.cells[x].N), Val(m, m.cells[y].N)),
             BzMultiply(Val(m, m.cells[x].D), Val(m, m.cells[y].D)))

BqDivMem(m, x, y) ==
    IF x = 0 \/ y = 0 THEN Ret(m, 0)
    ELSE LET m1 == ZNew(m, BzMultiply(Val(m, m.cells[x].N), Val(m, m.cells[y].D)))
             n  == m1.ret
         IN IF n = 0 THEN Ret(m1, 0)
            ELSE LET m2 == ZNew(m1, BzMultiply(Val(m1, m1.cells[x].D), Val(m1, m1.cells[y].N)))
                     d  == m2.ret
                 IN IF d = 0 THEN Ret(BzFreeMem(m2, n), 0)
                    ELSE LET m3 == BzSetSignMem(m2, n, DivNumeratorSign(Val(m2, n), Val(m2, d)))
                             m4 == BzSetSignMem(m3, d, BZ_PLUS)
                         IN BqCreateInternalMem(m4, n, d, BQ_SET)

\* ret is 1 when a BqCmp is returned, 0 when BQ_ERR is
BqCompareMem(m, x, y) ==
    IF x = 0 \/ y = 0 THEN Ret(m, 0)
    ELSE LET an == Val(m, m.cells[x].N)
             ad == Val(m, m.cells[x].D)
             bn == Val(m, m.cells[y].N)
             bd == Val(m, m.cells[y].D)
         IN IF BzGetSign(an) # BzGetSign(bn) THEN Ret(m, 1)
            ELSE IF BzCompare(ad, bd) = BZ_EQ THEN Ret(m, 1)
            ELSE LET m1   == ZNew(m, BzMultiply(an, bd))
                     tmp1 == m1.ret
                 IN IF tmp1 = 0 THEN Ret(m1, 0)
                    ELSE LET m2   == ZNew(m1, BzMultiply(ad, bn))
                             tmp2 == m2.ret
                         IN IF tmp2 = 0 THEN Ret(BzFreeMem(m2, tmp1), 0)
                            ELSE Ret(BzFreeMem(BzFreeMem(m2, tmp2), tmp1), 1)

\* BqNegate, were the sign written into the numerator of the operand
BqNegateMemOperand(m, x) ==
    IF x = 0 THEN Ret(m, 0)
    ELSE LET an  == m.cells[x].N
             ad  == m.cells[x].D
             m1  == BqCreateInternalMem(m, an, ad, BQ_COPY)
             res == m1.ret
         IN IF res = 0 THEN m1
            ELSE IF BzGetSign(Val(m1, an)) = BZ_MINUS
            THEN Ret(BzSetSignMem(m1, an, BZ_PLUS), res)
            ELSE IF BzGetSign(Val(m1, an)) = BZ_PLUS
            THEN Ret(BzSetSignMem(m1, an, BZ_MINUS), res)
            ELSE m1

BqNegateMem(m, x) ==
    IF x = 0 THEN Ret(m, 0)
    ELSE LET an  == m.cells[x].N
             ad  == m.cells[x].D
             m1  == BqCreateInternalMem(m, an, ad, BQ_COPY)
             res == m1.ret
         IN IF res = 0 THEN m1
            ELSE IF BzGetSign(Val(m1, an)) = BZ_MINUS
            THEN Ret(BzSetSignMem(m1, m1.cells[res].N, BZ_PLUS), res)
            ELSE IF BzGetSign(Val(m1, an)) = BZ_PLUS
            THEN Ret(BzSetSignMem(m1, m1.cells[res].N, BZ_MINUS), res)
            ELSE m1

BqAbsMem(m, x) ==
    IF x = 0 THEN Ret(m, 0)
    ELSE LET m1  == BqCreateInternalMem(m, m.cells[x].N, m.cells[x].D, BQ_COPY)
             res == m1.ret
         IN IF res = 0 THEN m1
            ELSE IF BzGetSign(Val(m1, m1.cells[res].N)) = BZ_MINUS
            THEN Ret(BzSetSignMem(m1, m1.cells[res].N, BZ_PLUS), res)
            ELSE m1

BqInverseMem(m, x) ==
    IF x = 0 THEN Ret(m, 0)
    ELSE BqCreateInternalMem(m, m.cells[x].D, m.cells[x].N, BQ_COPY)

\* BqFromString on the heap: the checks before the first BigZ are those of
\* BqFromString, the two BigZ are then read and handed to BqCreateInternal
BqFromStringMem(m, s, base) ==
    IF s = <<>> THEN Ret(m, 0)
    ELSE LET s1 == SkipSpace(s)
             p1 == IF At(s1, 1) \in {"+", "-"} THEN 2 ELSE 1
             p2 == CHOOSE i \in p1 .. (Len(s1) + 1) :
                       /\ At(s1, i) \in {"/", NUL}
                       /\ \A j \in p1 .. (i - 1) : At(s1, j) # "/"
         IN IF At(s1, 1) \in {"+", "-"} /\ At(s1, 2) \in {"+", "-"} THEN Ret(m, 0)
            ELSE IF At(s1, p1) = NUL THEN Ret(m, 0)
            ELSE IF At(s1, p2) = NUL
            THEN CreateFromTwoMem(m, BzFromString(s1, base, BZ_UNTIL_SPACE), BzFromInteger(1))
            ELSE IF BadAfterSlash(At(s1, p2 + 1)) THEN Ret(m, 0)
            ELSE CreateFromTwoMem(m, BzFromString(s1, base, BZ_UNTIL_SLASH),
                     BzFromString(SubSeq(s1, p2 + 1, Len(s1)), base, BZ_UNTIL_SPACE))

\* BqFromLongDouble on the heap: the loop allocates nothing; what follows
\* it makes the two BigZ and hands them to BqCreateInternal
BqFromLongDoubleMem(m, p, q, maxd) ==
    LET f == FareyRun(FareyStart(p, q, maxd))
    IN IF f.pc # "break" THEN Ret(m, 0)
       ELSE CreateFromTwoMem(m, BzFromInteger(WrapBzInt(f.sign * f.rn)), BzFromInteger(f.rd))

\* the i-th statement of the fallback of BqToLongDouble on the heap; f holds
\* the machine, the operand q, the shift w and the locals of the fallback.
\* No result of a call is tested; the conversion of the fraction by the
\* inner BqToLongDouble allocates nothing
BqToLongDoubleFallbackMem(f, i) ==
    LET m == f.m
    IN CASE i = 1 ->
              LET r == ZNew(m, BzFromInteger(1))
              IN [f EXCEPT !.m = r, !.zone = r.ret]
         [] i = 2 ->
              LET r == ZNew(m, BzAsh(Val(m, f.zone), f.w))
              IN [f EXCEPT !.m = r, !.zdiv = r.ret]
         [] i = 3 ->
              LET r == BqCreateInternalMem(m, f.zdiv, f.zone, BQ_COPY)
              IN [f EXCEPT !.m = r, !.qdiv = r.ret]
         [] i = 4 ->
              LET r == ZNew(m, BzFloor(Val(m, m.cells[f.q].N), Val(m, m.cells[f.q].D)))
              IN [f EXCEPT !.m = r, !.zfloor = r.ret]
         [] i = 5 ->
              LET r == BqCreateInternalMem(m, f.zfloor, f.zone, BQ_COPY)
              IN [f EXCEPT !.m = r, !.qfloor = r.ret]
         [] i = 6 ->
              LET r == BqSubtractMem(m, f.q, f.qfloor)
              IN [f EXCEPT !.m = r, !.qtmp1 = r.ret]
         [] i = 7 -> [f EXCEPT !.m = BzFreeMem(BqFreeMem(m, f.qfloor), f.zfloor)]
         [] i = 8 ->
              LET r == BqMultiplyMem(m, f.qtmp1, f.qdiv)
              IN [f EXCEPT !.m = r, !.qtmp2 = r.ret]
         [] i = 9 -> [f EXCEPT !.m = BqFreeMem(m, f.qtmp1)]
         [] i = 10 ->
              LET r == ZNew(m, BzFloor(Val(m, m.cells[f.qtmp2].N),
                                       Val(m, m.cells[f.qtmp2].D)))
              IN [f EXCEPT !.m = r, !.ztmp = r.ret]
         [] i = 11 ->
              LET r == BqCreateInternalMem(m, f.ztmp, f.zdiv, BQ_COPY)
              IN [f EXCEPT !.m = r, !.qtmp1 = r.ret]
         [] i = 12 -> [f EXCEPT !.m = BzFreeMem(BqFreeMem(m, f.qtmp1), f.ztmp)]
         [] i = 13 -> [f EXCEPT !.m = BqFreeMem(m, f.qtmp2)]
         [] OTHER -> [f EXCEPT !.m = BzFreeMem(BzFreeMem(BqFreeMem(m, f.qdiv), f.zdiv), f.zone)]

\* the statements of the fallback from the i-th to the last, in order
RECURSIVE FallbackRun(_, _)
FallbackRun(f, i) ==
    IF i > 14 THEN f
    ELSE CHOOSE r \in {FallbackRun(BqToLongDoubleFallbackMem(v, i), i + 1) : v \in {f}} : TRUE

\* ret is 1 when the fallback ran
BqToLongDoubleMem(m, q, w) ==
    IF q = 0 THEN Ret(m, 0)
    ELSE IF NaiveIsNan(BqMake(Val(m, m.cells[q].N), Val(m, m.cells[q].D)))
    THEN Ret(FallbackRun([m |-> m, q |-> q, w |-> w, zone |-> 0, zdiv |-> 0,
                          qdiv |-> 0, zfloor |-> 0, qfloor |-> 0, qtmp1 |-> 0,
                          qtmp2 |-> 0, ztmp |-> 0], 1).m, 1)
    ELSE Ret(m, 0)

---------------------------------------------------------------------------
(* State machine                                                           *)

\* The integers a caller can hand to BqCreate
Ints == (0 - MaxMag) .. MaxMag

InBounds(q) == q.nul \/ (q.N.m <= MaxMag /\ q.D.m <= MaxMag)

NoCall == [op |-> "none"]

\* the operations that return a BigQ
QOps == {"Create", "Add", "Subtract", "Multiply", "Div", "Negate", "Abs", "Inverse"}

\* the characters a caller types
Chars == {" ", "+", "-", "/", "0", "1", "2"}

\* the values BqCreate returns for the integers of the model
Created == {BqCreate(BzFromInteger(n), BzFromInteger(d)).q : n \in Ints, d \in Ints}

Init ==
    /\ gcdBuild \in {"magnitude", "null"}
    /\ a \in Created
    /\ b \in Created
    /\ call = NoCall
    /\ text = <<>>
    /\ third = BQNULL
    /\ farey = FareyIdle

InitStr ==
    /\ gcdBuild \in {"magnitude", "null"}
    /\ a = BQNULL
    /\ b = BQNULL
    /\ call = NoCall
    /\ text = <<>>
    /\ third = BQNULL
    /\ farey = FareyIdle

Create ==
    \E n \in Ints, d \in Ints :
        /\ call' = [op |-> "Create", n |-> BzFromInteger(n), d |-> BzFromInteger(d),
                    out |-> BqCreate(BzFromInteger(n), BzFromInteger(d))]
        /\ text' = <<>>
        /\ UNCHANGED <<a, b, gcdBuild, third, farey>>

Add ==
    \E x \in {a, b}, y \in {a, b} :
        /\ call' = [op |-> "Add", x |-> x, y |-> y, out |-> BqAdd(x, y)]
        /\ UNCHANGED <<a, b, text, gcdBuild, third, farey>>

Subtract ==
    \E x \in {a, b}, y \in {a, b} :
        /\ call' = [op |-> "Subtract", x |-> x, y |-> y, out |-> BqSubtract(x, y)]
        /\ UNCHANGED <<a, b, text, gcdBuild, third, farey>>

Multiply ==
    \E x \in {a, b}, y \in {a, b} :
        /\ call' = [op |-> "Multiply", x |-> x, y |-> y, out |-> BqMultiply(x, y)]
        /\ UNCHANGED <<a, b, text, gcdBuild, third, farey>>

Div ==
    \E x \in {a, b}, y \in {a, b} :
        /\ call' = [op |-> "Div", x |-> x, y |-> y, out |-> BqDiv(x, y)]
        /\ UNCHANGED <<a, b, text, gcdBuild, third, farey>>

Compare ==
    \E x \in {a, b}, y \in {a, b} :
        /\ call' = [op |-> "Compare", x |-> x, y |-> y, out |-> BqCompare(x, y)]
        /\ UNCHANGED <<a, b, text, gcdBuild, third, farey>>

Negate ==
    \E x \in {a, b} :
        /\ call' = [op |-> "Negate", x |-> x, out |-> BqNegate(x)]
        /\ UNCHANGED <<a, b, text, gcdBuild, third, farey>>

Abs ==
    \E x \in {a, b} :
        /\ call' = [op |-> "Abs", x |-> x, out |-> BqAbs(x)]
        /\ UNCHANGED <<a, b, text, gcdBuild, third, farey>>

Inverse ==
    \E x \in {a, b} :
        /\ call' = [op |-> "Inverse", x |-> x, out |-> BqInverse(x)]
        /\ UNCHANGED <<a, b, text, gcdBuild, third, farey>>

\* the caller converts an operand to the floating type
ToLongDouble ==
    \E x \in {a, b}, w \in 1 .. MaxShift :
        /\ call' = [op |-> "ToLongDouble", x |-> x, out |-> BqToLongDouble(x, w)]
        /\ UNCHANGED <<a, b, text, gcdBuild, third, farey>>

\* the caller keeps the BigQ the last call returned as its first operand
KeepA ==
    /\ call.op \in QOps
    /\ InBounds(call.out.q)
    /\ a' = call.out.q
    /\ UNCHANGED <<b, call, text, gcdBuild, third, farey>>

\* the caller keeps the BigQ the last call returned as its second operand
KeepB ==
    /\ call.op \in QOps
    /\ InBounds(call.out.q)
    /\ b' = call.out.q
    /\ UNCHANGED <<a, call, text, gcdBuild, third, farey>>

\* the caller appends a character to the text
Type ==
    \E c \in Chars :
        /\ Len(text) < MaxStrLen
        /\ text' = Append(text, c)
        /\ call' = NoCall
        /\ UNCHANGED <<a, b, gcdBuild, third, farey>>

FromString ==
    \E base \in Bases :
        /\ call' = [op |-> "FromString", s |-> text, base |-> base,
                    out |-> BqFromString(text, base)]
        /\ UNCHANGED <<a, b, text, gcdBuild, third, farey>>

\* the caller formats the BigQ the last call returned
ToStringBuffer ==
    \E base \in Bases, sign \in {BQ_DEFAULT_SIGN, BQ_FORCE_SIGN},
       buf \in BOOLEAN, hasLen \in BOOLEAN, cap \in 0..MaxCap :
        /\ call.op \in QOps \cup {"FromString"}
        /\ hasLen \/ cap = 0
        /\ buf \/ (~hasLen /\ cap = 0)
        /\ call' = [op |-> "ToString", q |-> call.out.q, base |-> base, sign |-> sign,
                    buf |-> buf, hasLen |-> hasLen, cap |-> cap,
                    out |-> BqToStringBufferExt(call.out.q, base, sign, buf, hasLen, cap)]
        /\ text' = <<>>
        /\ UNCHANGED <<a, b, gcdBuild, third, farey>>

Next ==
    \/ Add
    \/ Subtract
    \/ Multiply
    \/ Div
    \/ Compare
    \/ Negate
    \/ Abs
    \/ Inverse
    \/ ToLongDouble
    \/ KeepA
    \/ KeepB

Spec == Init /\ [][Next]_vars

NextStr ==
    \/ Create
    \/ Type
    \/ FromString
    \/ ToStringBuffer

SpecStr == InitStr /\ [][NextStr]_vars

\* the caller keeps the BigQ an operation returns as its third operand
Into(q) ==
    /\ InBounds(q)
    /\ third' = q
    /\ call' = NoCall
    /\ UNCHANGED <<a, b, text, gcdBuild, farey>>

AddInto == \E x \in {a, b}, y \in {a, b} : Into(BqAdd(x, y).q)

SubtractInto == \E x \in {a, b}, y \in {a, b} : Into(BqSubtract(x, y).q)

MultiplyInto == \E x \in {a, b}, y \in {a, b} : Into(BqMultiply(x, y).q)

DivInto == \E x \in {a, b}, y \in {a, b} : Into(BqDiv(x, y).q)

NegateInto == \E x \in {a, b} : Into(BqNegate(x).q)

AbsInto == \E x \in {a, b} : Into(BqAbs(x).q)

InverseInto == \E x \in {a, b} : Into(BqInverse(x).q)

\* the caller renames its three operands
Rotate ==
    /\ a' = b
    /\ b' = third
    /\ third' = a
    /\ call' = NoCall
    /\ UNCHANGED <<text, gcdBuild, farey>>

InitOrd ==
    /\ gcdBuild \in {"magnitude", "null"}
    /\ a \in Created
    /\ b \in Created
    /\ third \in Created
    /\ call = NoCall
    /\ text = <<>>
    /\ farey = FareyIdle

NextOrd ==
    \/ AddInto
    \/ SubtractInto
    \/ MultiplyInto
    \/ DivInto
    \/ NegateInto
    \/ AbsInto
    \/ InverseInto
    \/ Rotate
    \/ Compare

SpecOrd == InitOrd /\ [][NextOrd]_vars

\* the values and bounds a caller hands to BqFromLongDouble
FloatNums == (0 - MaxFloatNum) .. MaxFloatNum

FloatDens == 1 .. MaxFloatDen

Bounds == 0 .. MaxBound

InitFloat ==
    /\ gcdBuild \in {"magnitude", "null"}
    /\ a = BQNULL
    /\ b = BQNULL
    /\ third = BQNULL
    /\ call = NoCall
    /\ text = <<>>
    /\ farey = FareyIdle

\* BqFromLongDouble is called: the locals are initialised, the sign taken
FromLongDouble ==
    \E p \in FloatNums, q \in FloatDens, maxd \in Bounds :
        /\ farey.pc = "idle"
        /\ farey' = FareyStart(p, q, maxd)
        /\ call' = NoCall
        /\ UNCHANGED <<a, b, text, gcdBuild, third>>

\* an iteration that moves a bound to the mediant and continues
FareyLoop ==
    /\ farey.pc = "loop"
    /\ FareyStep(farey).pc = "loop"
    /\ farey' = FareyStep(farey)
    /\ UNCHANGED <<a, b, call, text, gcdBuild, third>>

\* the iteration that breaks, and the creation of the result
FareyReturn ==
    /\ farey.pc = "loop"
    /\ FareyStep(farey).pc = "break"
    /\ farey' = [FareyStep(farey) EXCEPT !.pc = "done"]
    /\ call' = [op |-> "FromFloat", p |-> farey.sign * farey.p, q |-> farey.q,
                maxd |-> farey.maxd, out |-> FareyCreate(FareyStep(farey))]
    /\ UNCHANGED <<a, b, text, gcdBuild, third>>

\* an iteration whose sum does not fit a BzInt, in a build that traps
FareyTrap ==
    /\ farey.pc = "loop"
    /\ FareyOverflows(farey)
    /\ farey' = [farey EXCEPT !.pc = "trap"]
    /\ UNCHANGED <<a, b, call, text, gcdBuild, third>>

NextFloat ==
    \/ FromLongDouble
    \/ FareyLoop
    \/ FareyReturn
    \/ FareyTrap

SpecFloat == InitFloat /\ [][NextFloat]_vars

\* a call that is running runs on: the loop iterates, and returns when it breaks
SpecFloatLive == SpecFloat /\ WF_vars(FareyLoop) /\ WF_vars(FareyReturn)

---------------------------------------------------------------------------
(* The calls on the heap: each behaviour is one call on operands the      *)
(* caller built before, under one pattern of failing allocations.         *)

\* the patterns of failure: none, or the k-th allocation attempted
FailPatterns == {{}} \cup {{k} : k \in 1 .. MaxFail}

\* the texts handed to BqFromString
MemTexts ==
    {<<"1">>, <<"-", "2">>, <<"2", "/", "2">>, <<"0", "/", "2">>,
     <<"1", "/", "0">>, <<"-", "1", "/", "2">>, <<"1", "/", "-", "2">>, <<"/">>}

\* the caller's BigZ
PutZ(m, z) == [m EXCEPT !.cells = Append(@, ZCell(z)), !.ret = Len(m.cells) + 1]

\* the caller's BigQ: its two members and the container
PutQ(m, v) ==
    IF v.nul THEN Ret(m, 0)
    ELSE [m EXCEPT !.cells = @ \o <<ZCell(v.N), ZCell(v.D),
                                    QCell(Len(m.cells) + 1, Len(m.cells) + 2)>>,
                   !.ret = Len(m.cells) + 3]

MemRecord(op, args, m0, m) ==
    [op |-> op, args |-> args, pre |-> m0.cells, post |-> m.cells, fail |-> m0.fail,
     ret |-> m.ret]

InitMem ==
    /\ gcdBuild \in {"magnitude", "null"}
    /\ a = BQNULL
    /\ b = BQNULL
    /\ third = BQNULL
    /\ call = NoCall
    /\ text = <<>>
    /\ farey = FareyIdle

MemCreate ==
    /\ call = NoCall
    /\ \E n \in Ints, d \in Ints, fail \in FailPatterns :
        LET m0 == PutZ(PutZ(Machine(fail), BzFromInteger(n)), BzFromInteger(d))
        IN /\ call' = MemRecord("MemCreate", <<1, 2>>, m0, BqCreateInternalMem(m0, 1, 2, BQ_COPY))
           /\ UNCHANGED <<a, b, text, gcdBuild, third, farey>>

MemAdd ==
    /\ call = NoCall
    /\ \E x \in Created, y \in Created, same \in BOOLEAN, fail \in FailPatterns :
        LET mx == PutQ(Machine(fail), x)
            my == IF same THEN mx ELSE PutQ(mx, y)
        IN /\ same => x = y
           /\ call' = MemRecord("MemAdd", <<mx.ret, my.ret>>, my, BqAddMem(my, mx.ret, my.ret))
           /\ UNCHANGED <<a, b, text, gcdBuild, third, farey>>

MemSubtract ==
    /\ call = NoCall
    /\ \E x \in Created, y \in Created, same \in BOOLEAN, fail \in FailPatterns :
        LET mx == PutQ(Machine(fail), x)
            my == IF same THEN mx ELSE PutQ(mx, y)
        IN /\ same => x = y
           /\ call' = MemRecord("MemSubtract", <<mx.ret, my.ret>>, my, BqSubtractMem(my, mx.ret, my.ret))
           /\ UNCHANGED <<a, b, text, gcdBuild, third, farey>>

MemMultiply ==
    /\ call = NoCall
    /\ \E x \in Created, y \in Created, same \in BOOLEAN, fail \in FailPatterns :
        LET mx == PutQ(Machine(fail), x)
            my == IF same THEN mx ELSE PutQ(mx, y)
        IN /\ same => x = y
           /\ call' = MemRecord("MemMultiply", <<mx.ret, my.ret>>, my, BqMultiplyMem(my, mx.ret, my.ret))
           /\ UNCHANGED <<a, b, text, gcdBuild, third, farey>>

MemDiv ==
    /\ call = NoCall
    /\ \E x \in Created, y \in Created, same \in BOOLEAN, fail \in FailPatterns :
        LET mx == PutQ(Machine(fail), x)
            my == IF same THEN mx ELSE PutQ(mx, y)
        IN /\ same => x = y
           /\ call' = MemRecord("MemDiv", <<mx.ret, my.ret>>, my, BqDivMem(my, mx.ret, my.ret))
           /\ UNCHANGED <<a, b, text, gcdBuild, third, farey>>

MemCompare ==
    /\ call = NoCall
    /\ \E x \in Created, y \in Created, same \in BOOLEAN, fail \in FailPatterns :
        LET mx == PutQ(Machine(fail), x)
            my == IF same THEN mx ELSE PutQ(mx, y)
        IN /\ same => x = y
           /\ call' = MemRecord("MemCompare", <<mx.ret, my.ret>>, my, BqCompareMem(my, mx.ret, my.ret))
           /\ UNCHANGED <<a, b, text, gcdBuild, third, farey>>

MemNegate ==
    /\ call = NoCall
    /\ \E x \in Created, fail \in FailPatterns :
        LET mx == PutQ(Machine(fail), x)
        IN /\ call' = MemRecord("MemNegate", <<mx.ret>>, mx, BqNegateMem(mx, mx.ret))
           /\ UNCHANGED <<a, b, text, gcdBuild, third, farey>>

MemAbs ==
    /\ call = NoCall
    /\ \E x \in Created, fail \in FailPatterns :
        LET mx == PutQ(Machine(fail), x)
        IN /\ call' = MemRecord("MemAbs", <<mx.ret>>, mx, BqAbsMem(mx, mx.ret))
           /\ UNCHANGED <<a, b, text, gcdBuild, third, farey>>

MemInverse ==
    /\ call = NoCall
    /\ \E x \in Created, fail \in FailPatterns :
        LET mx == PutQ(Machine(fail), x)
        IN /\ call' = MemRecord("MemInverse", <<mx.ret>>, mx, BqInverseMem(mx, mx.ret))
           /\ UNCHANGED <<a, b, text, gcdBuild, third, farey>>

\* BqToStringBufferExt reads the two members through BzToString, which
\* returns strings: no BigZ and no BigQ is written, allocated or freed
MemToString ==
    /\ call = NoCall
    /\ \E x \in Created, fail \in FailPatterns :
        LET mx == PutQ(Machine(fail), x)
        IN /\ call' = MemRecord("MemToString", <<mx.ret>>, mx, Ret(mx, 0))
           /\ UNCHANGED <<a, b, text, gcdBuild, third, farey>>

MemToLongDouble ==
    /\ call = NoCall
    /\ \E x \in Created, w \in 1 .. MaxShift :
        LET mx == PutQ(Machine({}), x)
        IN /\ call' = MemRecord("MemToLongDouble", <<mx.ret>>, mx,
                                BqToLongDoubleMem(mx, mx.ret, w))
           /\ UNCHANGED <<a, b, text, gcdBuild, third, farey>>

MemFromString ==
    /\ call = NoCall
    /\ \E s \in MemTexts, base \in Bases, fail \in FailPatterns :
        LET m0 == Machine(fail)
        IN /\ call' = MemRecord("MemFromString", <<>>, m0, BqFromStringMem(m0, s, base))
           /\ UNCHANGED <<a, b, text, gcdBuild, third, farey>>

MemFromLongDouble ==
    /\ call = NoCall
    /\ \E p \in FloatNums, q \in FloatDens, maxd \in Bounds, fail \in FailPatterns :
        LET m0 == Machine(fail)
        IN /\ call' = MemRecord("MemFromLongDouble", <<>>, m0,
                                BqFromLongDoubleMem(m0, p, q, maxd))
           /\ UNCHANGED <<a, b, text, gcdBuild, third, farey>>

NextMem ==
    \/ MemCreate
    \/ MemAdd
    \/ MemSubtract
    \/ MemMultiply
    \/ MemDiv
    \/ MemCompare
    \/ MemNegate
    \/ MemAbs
    \/ MemInverse
    \/ MemToString
    \/ MemToLongDouble
    \/ MemFromString
    \/ MemFromLongDouble

SpecMem == InitMem /\ [][NextMem]_vars

---------------------------------------------------------------------------
(* Properties                                                              *)

\* the BigQ a caller holds or has just been handed
Held ==
    {a, b} \cup (IF call.op \in QOps \cup {"FromString"} THEN {call.out.q} ELSE {})

Zero == BzFromInteger(0)

One == BzFromInteger(1)

\* C1: every valid BigQ that exists after any sequence of operations has a
\* strictly positive denominator and gcd(|N|, D) = 1.
C1_CanonicalForm ==
    \A q \in Held :
        ~q.nul => /\ BzToInteger(q.D) > 0
                  /\ GcdNat(q.N.m, q.D.m) = 1

\* C2: every valid BigQ whose value is zero is exactly numerator 0 with the
\* zero sign over denominator 1, and compares Equal to create(0, 1).
C2_ZeroIsZeroOverOne ==
    \A q \in Held :
        (~q.nul /\ q.N.m = 0) =>
            /\ q.N = Zero
            /\ q.D = One
            /\ BqCompare(q, BqCreate(Zero, One).q).cmp = BQ_EQ

\* C3: dividing any valid BigQ by a valid BigQ equal to zero returns BQNULL.
C3_DivByZeroInvalid ==
    (call.op = "Div" /\ ~call.x.nul /\ ~call.y.nul /\ BzToInteger(call.y.N) = 0)
        => call.out.q.nul

\* C4: the inverse of a valid BigQ with a negative numerator is the valid
\* BigQ -D/|N|: negative numerator, strictly positive denominator.
C4_InverseOfNegative ==
    (call.op = "Inverse" /\ ~call.x.nul /\ BzToInteger(call.x.N) < 0) =>
        /\ ~call.out.q.nul
        /\ call.out.q.N = BzFromInteger(0 - call.x.D.m)
        /\ call.out.q.D = BzFromInteger(call.x.N.m)

\* C5: for every valid nonzero BigQ x, multiply(x, inverse(x)) is the valid
\* canonical value 1/1.
C5_TimesInverseIsOne ==
    \A x \in {a, b} :
        (~x.nul /\ BzToInteger(x.N) # 0) =>
            BqMultiply(x, BqInverse(x).q).q = BqMake(One, One)

\* the size a caller's buffer needs for q: the string and its terminator
RequiredSize(q, base, sign) ==
    BzStrLen(BqToStringBufferExt(q, base, sign, FALSE, FALSE, 0).str) + 1

\* C6: formatting a valid BigQ into a caller's buffer whose capacity is
\* smaller than the required size returns NULL, reports the required size
\* in *buflen and stores nothing into the buffer.
C6_ShortBufferUntouched ==
    (/\ call.op = "ToString"
     /\ ~call.q.nul
     /\ call.buf
     /\ call.hasLen
     /\ call.cap < RequiredSize(call.q, call.base, call.sign)) =>
        /\ call.out.ret = "NULL"
        /\ call.out.buflen = RequiredSize(call.q, call.base, call.sign)
        /\ call.out.stored = 0

\* the text after the first '/' of s, empty when s has no '/'
RECURSIVE AfterSlash(_)
AfterSlash(s) ==
    IF s = <<>> THEN <<>>
    ELSE IF s[1] = "/" THEN Tail(s)
    ELSE AfterSlash(Tail(s))

DenominatorParsesToZero(s, base) ==
    LET d == BzFromString(AfterSlash(s), base, BZ_UNTIL_SPACE)
    IN d.ok /\ BzToInteger(d) = 0

\* C7: create(n, d) returns BQNULL whenever d is zero or negative, and so
\* does fromString of a text whose denominator parses to zero.
C7_NonPositiveDenominator ==
    /\ (call.op = "Create" /\ BzToInteger(call.d) <= 0) => call.out.q.nul
    /\ (call.op = "FromString" /\ DenominatorParsesToZero(call.s, call.base))
           => call.out.q.nul

C7_Witness ==
    /\ call.op = "Create"
    /\ BzToInteger(call.d) < 0
    /\ BzToInteger(call.n) # 0
    /\ call.out.q.nul

\* C8: create(0, d) is exactly 0/1 for every positive d, whether the
\* arguments are copied (BqCreate) or consumed (BqFromString), whatever the
\* magnitude of d.
C8_CanonicalZero ==
    /\ (/\ call.op \in {"Create", "FromString"}
        /\ call.out.mode \in {BQ_COPY, BQ_SET}
        /\ call.out.n = Zero
        /\ call.out.d.ok
        /\ BzToInteger(call.out.d) > 0) => call.out.q = BqMake(Zero, One)
    /\ \A d \in 1..MaxMag, mode \in {BQ_COPY, BQ_SET} :
           BqCreateInternal(Zero, BzFromInteger(d), mode).q = BqMake(Zero, One)

C8_Witness ==
    /\ call.op = "FromString"
    /\ call.out.mode = BQ_SET
    /\ call.out.n = Zero
    /\ BzToInteger(call.out.d) > 1
    /\ call.out.q = BqMake(Zero, One)

\* C9: with a BQNULL operand, add, subtract, multiply, divide, negate, abs
\* and inverse return BQNULL and compare returns BQ_ERR, before any BigZ is
\* allocated and before any operand is read.
C9_InvalidPropagates ==
    /\ (call.op \in {"Add", "Subtract", "Multiply", "Div"}
            /\ (call.x.nul \/ call.y.nul)) =>
           /\ call.out.q.nul
           /\ call.out.allocs = 0
           /\ ~call.out.deref
           /\ call.out.mode = "none"
    /\ (call.op \in {"Negate", "Abs", "Inverse"} /\ call.x.nul) =>
           /\ call.out.q.nul
           /\ call.out.allocs = 0
           /\ ~call.out.deref
           /\ call.out.mode = "none"
    /\ (call.op = "Compare" /\ (call.x.nul \/ call.y.nul)) =>
           /\ call.out.cmp = BQ_ERR
           /\ call.out.allocs = 0
           /\ ~call.out.deref

C9_Witness ==
    /\ call.op = "Div"
    /\ ~call.x.nul
    /\ call.y.nul
    /\ call.out.q.nul
    /\ call.out.allocs = 0

\* C10: for all valid a and b, compare(subtract(add(a, b), b), a) is Equal.
C10_AddThenSubtract ==
    \A x \in {a, b}, y \in {a, b} :
        (~x.nul /\ ~y.nul) =>
            BqCompare(BqSubtract(BqAdd(x, y).q, y).q, x).cmp = BQ_EQ

\* C11: for every valid a, negate(a) is valid, its numerator is -N(a) (same
\* magnitude, opposite sign) and its denominator is D(a); negate of 0/1 is
\* 0/1; negate(negate(a)) has exactly the numerator and denominator of a.
C11_NegateInvolution ==
    /\ (call.op = "Negate" /\ ~call.x.nul) =>
           /\ ~call.out.q.nul
           /\ BzToInteger(call.out.q.N) = 0 - BzToInteger(call.x.N)
           /\ BzGetSign(call.out.q.N) = 0 - BzGetSign(call.x.N)
           /\ call.out.q.D = call.x.D
           /\ (call.x = BqMake(Zero, One) => call.out.q = BqMake(Zero, One))
    /\ \A x \in {a, b} :
           ~x.nul => BqNegate(BqNegate(x).q).q = x

\* C12: over valid values compare is a total order: compare(x, x) is
\* Equal; compare(x, y) is LessThan exactly when compare(y, x) is
\* GreaterThan, and Equal exactly when compare(y, x) is Equal; LessThan is
\* transitive.
C12_CompareTotalOrder ==
    \A x \in {a, b, third}, y \in {a, b, third}, z \in {a, b, third} :
        (~x.nul /\ ~y.nul /\ ~z.nul) =>
            /\ BqCompare(x, x).cmp = BQ_EQ
            /\ BqCompare(x, y).cmp \in {BQ_LT, BQ_EQ, BQ_GT}
            /\ (BqCompare(x, y).cmp = BQ_LT) <=> (BqCompare(y, x).cmp = BQ_GT)
            /\ (BqCompare(x, y).cmp = BQ_EQ) <=> (BqCompare(y, x).cmp = BQ_EQ)
            /\ (BqCompare(x, y).cmp = BQ_LT /\ BqCompare(y, z).cmp = BQ_LT)
                   => BqCompare(x, z).cmp = BQ_LT

C12_Witness ==
    /\ call.op = "Compare"
    /\ call.x = a
    /\ call.y = b
    /\ ~a.nul /\ ~b.nul /\ ~third.nul
    /\ a.D # b.D
    /\ call.out.cmp = BQ_LT
    /\ BqCompare(b, third).cmp = BQ_LT
    /\ BqCompare(a, third).cmp = BQ_LT

\* C13: for every valid q, each base and both sign policies,
\* fromString(toString(q, base, sign), base) is valid and has the numerator
\* and the denominator of q.
C13_ToStringFromString ==
    \A q \in Held, base \in Bases, sign \in {BQ_DEFAULT_SIGN, BQ_FORCE_SIGN} :
        ~q.nul =>
            LET str == BqToStringBufferExt(q, base, sign, FALSE, FALSE, 0).str
            IN BqFromString(str, base).q = q

\* the text is digits of the base and nothing else
IsDigits(s, base) ==
    s # <<>> /\ \A i \in 1..Len(s) : DigitValue(s[i], base) >= 0

\* the text is an optional sign and digits
IsInteger(s, base) ==
    IsDigits(IF At(s, 1) \in {"+", "-"} THEN Tail(s) ELSE s, base)

IntegerValue(s, base) ==
    IF At(s, 1) = "-" THEN 0 - DigitsValue(Tail(s), base, 0)
    ELSE IF At(s, 1) = "+" THEN DigitsValue(Tail(s), base, 0)
    ELSE DigitsValue(s, base, 0)

RECURSIVE BeforeSlash(_)
BeforeSlash(s) ==
    IF s = <<>> \/ s[1] = "/" THEN <<>> ELSE <<s[1]>> \o BeforeSlash(Tail(s))

\* the text is "n/d": an integer, one slash, unsigned digits
IsFraction(s, base) ==
    /\ Len(BeforeSlash(s)) < Len(s)
    /\ IsInteger(BeforeSlash(s), base)
    /\ IsDigits(AfterSlash(s), base)

\* n/d in lowest terms, for d > 0
Reduced(n, d) ==
    LET g == GcdNat(AbsInt(n), d)
    IN BqMake(BzFromInteger(n \div g), BzFromInteger(d \div g))

\* the text "n/d" in the base
FractionText(n, d, base) ==
    BzToString(BzFromInteger(n), base, BQ_DEFAULT_SIGN) \o <<"/">> \o ToDigits(d, base)

\* C14: fromString of a text "n/d" with d > 0 returns the value create(n, d)
\* returns, in lowest terms ("2/12" gives 1/6); a text without a slash is
\* parsed as n over 1.
C14_FromStringIsCreate ==
    /\ (call.op = "FromString" /\ IsFraction(call.s, call.base)
            /\ DigitsValue(AfterSlash(call.s), call.base, 0) > 0) =>
           LET n == IntegerValue(BeforeSlash(call.s), call.base)
               d == DigitsValue(AfterSlash(call.s), call.base, 0)
           IN /\ call.out.q = Reduced(n, d)
              /\ call.out.q = BqCreate(BzFromInteger(n), BzFromInteger(d)).q
    /\ (call.op = "FromString" /\ IsInteger(call.s, call.base)) =>
           call.out.q = BqMake(BzFromInteger(IntegerValue(call.s, call.base)), One)
    /\ (call.op = "Create" /\ BzToInteger(call.d) > 0) =>
           \A base \in Bases :
               BqFromString(FractionText(BzToInteger(call.n), BzToInteger(call.d), base),
                            base).q = call.out.q

C14_Witness ==
    /\ call.op = "FromString"
    /\ IsFraction(call.s, call.base)
    /\ IntegerValue(BeforeSlash(call.s), call.base) = 2
    /\ DigitsValue(AfterSlash(call.s), call.base, 0) = 12
    /\ call.out.q = BqMake(BzFromInteger(1), BzFromInteger(6))

\* C15: fromString returns Invalid for an empty text, a text of only
\* whitespace, a lone sign, two consecutive leading signs, and any text in
\* which the character right after a '/' is '+', '-' or a space.
C15_FromStringRejects ==
    (/\ call.op = "FromString"
     /\ \/ call.s = <<>>
        \/ \A i \in 1..Len(call.s) : call.s[i] = " "
        \/ SkipSpace(call.s) \in {<<"+">>, <<"-">>}
        \/ /\ At(SkipSpace(call.s), 1) \in {"+", "-"}
           /\ At(SkipSpace(call.s), 2) \in {"+", "-"}
        \/ \E i \in 1..Len(call.s) :
               call.s[i] = "/" /\ At(call.s, i + 1) \in {"+", "-", " "})
    => /\ call.out.q.nul
       /\ call.out.mode = "none"

C15_Witness ==
    /\ call.op = "FromString"
    /\ Len(call.s) = 4
    /\ IsDigits(<<call.s[1]>>, call.base)
    /\ call.s[2] = "/"
    /\ call.s[3] = " "
    /\ IsDigits(<<call.s[4]>>, call.base)
    /\ call.out.q.nul

\* C16: the string toString produces is "#.QNaN" for BQNULL whatever the
\* base; the integer formatter's text of the numerator alone exactly when the
\* denominator is 1; otherwise the numerator's text, one '/', and the
\* denominator's digits without a sign, the sign policy showing on the
\* numerator only.
C16_ToStringShapes ==
    (call.op = "ToString" /\ call.out.ret # "NULL") =>
        LET str == call.out.str
        IN IF call.q.nul THEN str = BqNaN
           ELSE IF call.q.D = One
           THEN /\ str = BzToString(call.q.N, call.base, call.sign)
                /\ \A i \in 1..Len(str) : str[i] # "/"
           ELSE /\ BeforeSlash(str) = BzToString(call.q.N, call.base, call.sign)
                /\ AfterSlash(str) = ToDigits(call.q.D.m, call.base)
                /\ Len(str) = Len(BeforeSlash(str)) + 1 + Len(AfterSlash(str))
                /\ str[Len(BeforeSlash(str)) + 1] = "/"

C16_Witness ==
    /\ call.op = "ToString"
    /\ call.out.ret = "heap"
    /\ call.sign = BQ_FORCE_SIGN
    /\ ~call.q.nul
    /\ BzToInteger(call.q.N) > 0
    /\ call.q.D # One
    /\ call.out.str[1] = "+"
    /\ AfterSlash(call.out.str) = ToDigits(call.q.D.m, call.base)

\* C17: whenever toString produces a string, the length it stores through
\* slen is the number of characters of that string, the terminator not
\* counted, on every path (BQNULL, integer, fraction; caller buffer or heap).
C17_StoredLength ==
    (call.op = "ToString" /\ call.out.ret # "NULL") =>
        call.out.slen = Len(call.out.str)

\* C18: whenever fromFloat returns a valid value, its denominator does not
\* exceed maxDenominator, for every value and every maxDenominator.
C18_DenominatorBound ==
    (call.op = "FromFloat" /\ ~call.out.q.nul) =>
        BzToInteger(call.out.q.D) <= call.maxd

\* |p/q - N/D| of a valid r = N/D, multiplied by q * D
ErrNum(p, q, r) ==
    AbsInt(p * BzToInteger(r.D) - BzToInteger(r.N) * q)

\* C19: when fromFloat returns a valid value, no fraction n/d with
\* 1 <= d <= maxDenominator is strictly closer to the value than it.
C19_BestApproximation ==
    (call.op = "FromFloat" /\ ~call.out.q.nul) =>
        \A d \in 1 .. call.maxd,
           n \in (0 - (MaxFloatNum + 1) * MaxBound) .. ((MaxFloatNum + 1) * MaxBound) :
            ~(AbsInt(call.p * d - n * call.q) * BzToInteger(call.out.q.D)
                < ErrNum(call.p, call.q, call.out.q) * d)

\* C20: for every value and all m1 <= m2 for which fromFloat returns valid
\* values, the value returned for m2 is at least as close as the one for m1.
C20_MonotoneInBound ==
    (call.op = "FromFloat" /\ ~call.out.q.nul) =>
        \A m2 \in call.maxd .. MaxBound :
            LET r1 == call.out.q
                r2 == BqFromLongDouble(call.p, call.q, m2).q
            IN ~r2.nul =>
                  ErrNum(call.p, call.q, r2) * BzToInteger(r1.D)
                     <= ErrNum(call.p, call.q, r1) * BzToInteger(r2.D)

\* the operand denotes a rational number: valid, denominator not 0
IsNumber(x) == ~x.nul /\ x.D.m # 0

\* the reduced fraction n/d for d # 0 of either sign
Exact(n, d) == IF d < 0 THEN Reduced(0 - n, 0 - d) ELSE Reduced(n, d)

\* C22: for all valid a and b (b nonzero for divide), add, subtract,
\* multiply and divide return the exact result a+b, a-b, a*b, a/b as a
\* reduced fraction with a positive denominator, the sign on the numerator.
C22_ExactArithmetic ==
    (call.op \in {"Add", "Subtract", "Multiply", "Div"}
        /\ IsNumber(call.x) /\ IsNumber(call.y)
        /\ (call.op = "Div" => call.y.N.m # 0)) =>
        LET an == BzToInteger(call.x.N)
            ad == BzToInteger(call.x.D)
            bn == BzToInteger(call.y.N)
            bd == BzToInteger(call.y.D)
        IN call.out.q =
              (IF call.op = "Add" THEN Exact(an * bd + bn * ad, ad * bd)
               ELSE IF call.op = "Subtract" THEN Exact(an * bd - bn * ad, ad * bd)
               ELSE IF call.op = "Multiply" THEN Exact(an * bn, ad * bd)
               ELSE Exact(an * bd, ad * bn))

\* the canonical form: positive denominator, lowest terms, zero as 0/1
Canonical(x) ==
    /\ ~x.nul
    /\ x.D.s = BZ_PLUS /\ x.D.m > 0
    /\ x.N.s = SgnInt(BzToInteger(x.N))
    /\ GcdNat(x.N.m, x.D.m) = 1

\* C23: for all valid canonical a and b, compare(a, b) is never Error and is
\* LessThan, Equal or GreaterThan exactly as N(a)*D(b) is less than, equal
\* to or greater than N(b)*D(a), on each of the three branches.
C23_CompareIsCrossProduct ==
    (call.op = "Compare" /\ Canonical(call.x) /\ Canonical(call.y)) =>
        LET l == BzToInteger(call.x.N) * BzToInteger(call.y.D)
            r == BzToInteger(call.y.N) * BzToInteger(call.x.D)
        IN /\ call.out.cmp # BQ_ERR
           /\ (call.out.cmp = BQ_LT) <=> (l < r)
           /\ (call.out.cmp = BQ_EQ) <=> (l = r)
           /\ (call.out.cmp = BQ_GT) <=> (l > r)

C23_Witness ==
    /\ call.op = "Compare"
    /\ Canonical(call.x) /\ Canonical(call.y)
    /\ BzToInteger(call.x.N) < 0
    /\ BzToInteger(call.y.N) < 0
    /\ call.x.D # call.y.D
    /\ call.x.N = call.y.N
    /\ call.out.cmp = BQ_GT
    /\ call.out.allocs = 2

\* C24: construction skips the gcd reduction only when the denominator is 1:
\* for every nonzero n and every d > 1 with gcd(|n|, d) > 1, (3, 6) and (2, 2)
\* included, the value constructed is (n/g, d/g) with g = gcd(|n|, d).
C24_ReducedUnlessOne ==
    /\ (call.op = "Create" /\ BzToInteger(call.n) # 0 /\ BzToInteger(call.d) > 0) =>
           /\ call.out.q = Reduced(BzToInteger(call.n), BzToInteger(call.d))
           /\ (call.out.allocs = 2) <=> (BzToInteger(call.d) = 1)
    /\ (call.op = "Create") =>
           \A n \in 1 .. (2 * MaxMag), d \in 2 .. (2 * MaxMag) :
               /\ BqCreate(BzFromInteger(n), BzFromInteger(d)).q = Reduced(n, d)
               /\ BqCreate(BzFromInteger(0 - n), BzFromInteger(d)).q = Reduced(0 - n, d)

C24_Witness ==
    /\ call.op = "Create"
    /\ BzToInteger(call.n) = 2
    /\ BzToInteger(call.d) = 2
    /\ call.out.q = BqMake(One, One)
    /\ BqCreate(BzFromInteger(3), BzFromInteger(6)).q = BqMake(One, BzFromInteger(2))

\* the raw pair of BqDiv handed to the consuming construction as it is
RawDiv(x, y) ==
    BqCreateInternal(BzMultiply(BqGetNumerator(x), BqGetDenominator(y)),
                     BzMultiply(BqGetDenominator(x), BqGetNumerator(y)), BQ_SET)

C30_FallbackError ==
    (call.op = "ToLongDouble" /\ call.out.path = "fallback") =>
        /\ call.out.deref
        /\ LET n   == BzToInteger(call.x.N)
               d   == BzToInteger(call.x.D)
               f   == BzToInteger(call.out.zfloor)
               m   == BzToInteger(call.out.ztmp)
               two == 2 ^ call.out.w
               err == (n * two) - (f * d * two) - (m * d)
           IN /\ f * d <= n /\ n < (f + 1) * d
              /\ 0 <= m /\ m < two
              /\ call.out.qtmp1 = Reduced(m, two)
              /\ 0 <= err /\ err < d

C30_Witness ==
    /\ call.op = "ToLongDouble"
    /\ call.out.path = "fallback"
    /\ call.out.deref
    /\ BzToInteger(call.x.N) = -3
    /\ BzToInteger(call.x.D) = 2
    /\ call.out.w = 3
    /\ BzToInteger(call.out.zfloor) = -2
    /\ BzToInteger(call.out.ztmp) = 4
    /\ call.out.qtmp1 = BqMake(One, BzFromInteger(2))

\* C27: for every finite value and every maxDenominator >= 1 the mediant
\* loop of fromFloat terminates after finitely many iterations: a call that
\* has entered the loop leaves it.
C27_LoopTerminates ==
    (farey.pc = "loop" /\ farey.maxd >= 1) ~> (farey.pc \in {"done", "trap"})

\* C28: at the start of every iteration of the fromFloat loop the bounds are
\* adjacent Farey neighbours that bracket the target: un*ld - ln*ud = 1 and
\* ln/ld <= |value| <= un/ud, with 1/0 read as +infinity.
C28_FareyNeighbours ==
    (farey.pc = "loop") =>
        /\ farey.un * farey.ld - farey.ln * farey.ud = 1
        /\ farey.ld > 0 /\ farey.ud >= 0
        /\ farey.ln * farey.q <= farey.p * farey.ld
        /\ farey.p * farey.ud <= farey.un * farey.q

\* the call of the record ran on the heap
OnHeap == call.op # "none" /\ "pre" \in DOMAIN call

\* the addresses the call allocated
Allocated == (Len(call.pre) + 1) .. Len(call.post)

\* the call returned a BigQ, valid or not
ReturnsBigQ ==
    call.op \in {"MemCreate", "MemAdd", "MemSubtract", "MemMultiply", "MemDiv",
                 "MemNegate", "MemAbs", "MemInverse", "MemFromString",
                 "MemFromLongDouble"}

\* the addresses of the members of the valid BigQ returned
Members ==
    IF ReturnsBigQ /\ call.ret # 0
    THEN {call.post[call.ret].N, call.post[call.ret].D}
    ELSE {}

\* C21: no operation modifies or captures its inputs: after create, add,
\* subtract, multiply, divide, compare, negate, abs, inverse, toString and
\* toFloat every BigInt and every RationalValue of the caller is as it was
\* (magnitude, sign, members, not released), also when both operands are
\* one object, and a value returned shares no BigInt with them.
C21_InputsUntouched ==
    (OnHeap /\ call.op \notin {"MemFromString", "MemFromLongDouble"}) =>
        /\ \A addr \in 1 .. Len(call.pre) : call.post[addr] = call.pre[addr]
        /\ \A addr \in Members : addr \in Allocated

C21_Witness ==
    /\ OnHeap
    /\ call.op = "MemNegate"
    /\ call.fail = {}
    /\ call.ret # 0
    /\ call.pre[1].z.s = BZ_MINUS
    /\ call.post[1].z.s = BZ_MINUS
    /\ call.post[call.post[call.ret].N].z.s = BZ_PLUS
    /\ call.post[call.post[call.ret].D].z.m > 1

\* C25: under any pattern of failing allocations, when create, add,
\* subtract, multiply, divide, fromString or fromFloat returns, every BigInt
\* allocated during the call is a member of the valid value returned and
\* not released, or has been released exactly once.
C25_NoLeakNoDoubleFree ==
    (OnHeap /\ call.op \in {"MemCreate", "MemAdd", "MemSubtract", "MemMultiply",
                            "MemDiv", "MemFromString", "MemFromLongDouble"}) =>
        \A addr \in Allocated :
            call.post[addr].kind = "z" =>
                call.post[addr].frees = (IF addr \in Members THEN 0 ELSE 1)

\* C26: when toFloat takes its fallback, every BigInt and every
\* RationalValue it created has been released exactly once when it returns.
C26_FallbackReleasesAll ==
    (OnHeap /\ call.op = "MemToLongDouble" /\ call.ret = 1) =>
        \A addr \in Allocated : call.post[addr].frees = 1

=============================================================================
